---- MODULE Spec2Model ----
(***************************************************************************)
(* Model of noise-rs's Cache decorator (src/noise_fns/cache.rs) and Min    *)
(* combiner (src/noise_fns/combiners/min.rs).                              *)
(*                                                                         *)
(* One Cache wraps one leaf generator.  The leaf (a Seedable, MultiFractal *)
(* NoiseFn such as Fbm) is an external collaborator: it is modelled as a   *)
(* deterministic function of its configuration and of the point.           *)
(* An f64 is a record [nan, neg, v]: NaN, or the number v, or (neg) the    *)
(* negative zero.                                                          *)
(* An Option is a sequence: None is <<>>, Some(x) is <<x>>.                *)
(***************************************************************************)
EXTENDS Integers, Sequences, FiniteSets, TLC

VARIABLES
    source,     \* Cache.source: the wrapped leaf's configuration
    value,      \* Cache.value: Cell<Option<f64>>
    point,      \* Cache.point: RefCell<Vec<f64>>
    dims,       \* the dimensions N at which the caller uses the Cache
    last,       \* observer: the most recent call, its result and the calls it made on its sources
    trace,      \* observer: the get calls made since construction (while tracing)
    tracing,    \* observer: only get calls were made since construction, at most MaxTrace
    fresh,      \* observer: no get call was made on the Cache since construction
    changed,    \* observer: the wrapped source's configuration was changed since construction
    seedArg,    \* observer: the seed most recently given (to the leaf's construction,
                \* to Seedable::new or to set_seed)
    panicked,   \* the calling thread panicked (assert_eq! in quick_eq)
    twin,       \* a second tree, built on its own: its Cache, the shape of both
                \* trees, and what its latest evaluation returned
    lastEval,   \* observer: the wrapped source's most recent evaluation by the Cache
                \* (the point it was given and what it returned), None before the first
    threads,    \* callers sharing the Cache without synchronization: each one's
                \* position in Cache::get, its argument and its locals
    writers,    \* the threads inside point.borrow_mut() .. drop of the RefMut
    overlapped  \* observer: some get began while another thread was inside get

vars == <<source, value, point, dims, last, trace, tracing, fresh, changed, seedArg, panicked,
          twin, lastEval, threads, writers, overlapped>>

----------------------------------------------------------------------------
(* Bounds *)

MaxSeed == 1        \* seeds are 0..MaxSeed
MaxTrace == 3       \* length of the recorded prefix of get calls

----------------------------------------------------------------------------
(* f64, Option, points *)

NaN == [nan |-> TRUE, neg |-> FALSE, v |-> 0]
F(x) == [nan |-> FALSE, neg |-> FALSE, v |-> x]
NegZero == [nan |-> FALSE, neg |-> TRUE, v |-> 0]

None == <<>>
Some(x) == <<x>>

\* the points the caller draws from, at each dimension
PointsOf(n) ==
    IF n = 1 THEN {<<F(0)>>, <<F(1)>>, <<NegZero>>, <<NaN>>}
    ELSE {<<F(0), F(0)>>, <<F(0), F(1)>>, <<F(1), F(0)>>, <<F(0), NegZero>>, <<NaN, F(0)>>}
Dims == {1, 2}
Seeds == 0..MaxSeed
ParamVals == {1, 2}

Points == UNION {PointsOf(n) : n \in Dims}

HasNaN(p) == \E i \in 1..Len(p) : p[i].nan

\* f64's PartialEq: NaN is equal to nothing, itself included; -0.0 == 0.0
F64Eq(a, b) == ~a.nan /\ ~b.nan /\ a.v = b.v

\* the larger number instead of the smaller
F64Min_Max(a, b) ==
    IF a.nan THEN b
    ELSE IF b.nan THEN a
    ELSE IF b.v > a.v THEN b ELSE a

\* f64::min: the smaller number; if one argument is NaN, the other one
F64Min(a, b) ==
    IF a.nan THEN b
    ELSE IF b.nan THEN a
    ELSE IF b.v < a.v THEN b ELSE a

----------------------------------------------------------------------------
(* The leaf generator: a fractal sum of octaves over a seeded basis, computed *)
(* on the numeric value of each coordinate; NaN propagates                   *)

Configs == [seed : Seeds, octaves : ParamVals, frequency : ParamVals,
            lacunarity : ParamVals, persistence : ParamVals]

LeafNew(seed) ==
    [seed |-> seed, octaves |-> 1, frequency |-> 1, lacunarity |-> 2, persistence |-> 1]

LeafSetSeed(cfg, seed) == [cfg EXCEPT !.seed = seed]
LeafSeed(cfg) == cfg.seed
LeafSetOctaves(cfg, octaves) == [cfg EXCEPT !.octaves = octaves]
LeafSetFrequency(cfg, frequency) == [cfg EXCEPT !.frequency = frequency]
LeafSetLacunarity(cfg, lacunarity) == [cfg EXCEPT !.lacunarity = lacunarity]
LeafSetPersistence(cfg, persistence) == [cfg EXCEPT !.persistence = persistence]

RECURSIVE Weighted(_, _, _)
Weighted(p, scale, i) ==
    IF i > Len(p) THEN 0 ELSE i * scale * p[i].v + Weighted(p, scale, i + 1)

Basis(seed, p, scale) == ((5 * seed + Weighted(p, scale, 1)) % 7) - 3

RECURSIVE Pow(_, _)
Pow(b, e) == IF e = 0 THEN 1 ELSE b * Pow(b, e - 1)

RECURSIVE Octaves(_, _, _)
Octaves(cfg, p, i) ==
    IF i >= cfg.octaves THEN 0
    ELSE Pow(cfg.persistence, i) * Basis(cfg.seed, p, cfg.frequency * Pow(cfg.lacunarity, i))
         + Octaves(cfg, p, i + 1)

LeafGet(cfg, p) == IF HasNaN(p) THEN NaN ELSE F(Octaves(cfg, p, 0))

----------------------------------------------------------------------------
(* Cache *)

\* a constructor that starts with a remembered value
CacheNew_Filled(src) == [source |-> src, value |-> Some(F(0)), point |-> <<>>]

CacheNew(src) == [source |-> src, value |-> None, point |-> <<>>]

SeedableNew(seed) == [source |-> LeafNew(seed), value |-> None, point |-> <<>>]

\* a.iter().eq(b): element-wise f64 equality
RECURSIVE IterEq(_, _, _)
IterEq(a, b, i) ==
    IF i > Len(a) \/ i > Len(b) THEN Len(a) = Len(b)
    ELSE F64Eq(a[i], b[i]) /\ IterEq(a, b, i + 1)

\* assert_eq!(a.len(), b.len()) fires
QuickEqPanics(a, b) == Len(a) # Len(b)

\* a comparison that stops after the first coordinate
quick_eq_FirstOnly(a, b) == F64Eq(a[1], b[1])

quick_eq(a, b) == IterEq(a, b, 1)

\* a hit that does not look at the stored point
CacheHit_AnyPoint(c, p) == c.value # None

\* a match that never takes its first arm
CacheHit_Never(c, p) == FALSE

\* the match in Cache::get takes its first arm: the guard is evaluated only
\* when value is Some
CacheHit(c, p) == c.value # None /\ quick_eq(c.point, p)

\* a call made on a source, and a call made by the caller, as the observers record them
Call(src, fn, pt, arg, ret) == [src |-> src, fn |-> fn, pt |-> pt, arg |-> arg, ret |-> ret]
Op(op, pt, arg, ret, calls, inner) ==
    [op |-> op, pt |-> pt, arg |-> arg, ret |-> ret, calls |-> calls, inner |-> inner]

\* the result of a method: the Cache afterwards, Some(returned value) (None when
\* it panicked or returns Self), and the calls it made on the wrapped source
Result(c, ret, calls) == [cache |-> c, ret |-> ret, calls |-> calls]

\* a miss arm that stores the value and leaves the stored point alone
Store_KeepsPoint(c, p, v) ==
    [source |-> c.source, value |-> Some(v), point |-> IF c.point = <<>> THEN p ELSE c.point]

\* a miss arm that stores the value only
Store_ValueOnly(c, p, v) == [source |-> c.source, value |-> Some(v), point |-> c.point]

\* the memo as the miss arm leaves it
Store(c, p, v) == [source |-> c.source, value |-> Some(v), point |-> p]

CacheGet(c, p) ==
    IF c.value # None /\ QuickEqPanics(c.point, p)
    THEN Result(c, None, <<>>)
    ELSE IF CacheHit(c, p)
    THEN Result(c, Some(c.value[1]), <<>>)
    ELSE LET v == LeafGet(c.source, p) IN
         Result(Store(c, p, v), Some(v), <<Call("source", "get", p, 0, Some(v))>>)

\* a set_seed that keeps the old source
CacheSetSeed_Drops(c, seed) == Result(c, None, <<>>)

CacheSetSeed(c, seed) ==
    Result([source |-> LeafSetSeed(c.source, seed), value |-> c.value, point |-> c.point],
           None, <<Call("source", "set_seed", <<>>, seed, None)>>)

CacheSeed(c) ==
    Result(c, Some(LeafSeed(c.source)), <<Call("source", "seed", <<>>, 0, Some(LeafSeed(c.source)))>>)

\* a set_octaves that forwards to set_frequency
CacheSetOctaves_Frequency(c, octaves) ==
    Result([c EXCEPT !.source = LeafSetFrequency(c.source, octaves)],
           None, <<Call("source", "set_frequency", <<>>, octaves, None)>>)

CacheSetOctaves(c, octaves) ==
    Result([c EXCEPT !.source = LeafSetOctaves(c.source, octaves)],
           None, <<Call("source", "set_octaves", <<>>, octaves, None)>>)

CacheSetFrequency(c, frequency) ==
    Result([c EXCEPT !.source = LeafSetFrequency(c.source, frequency)],
           None, <<Call("source", "set_frequency", <<>>, frequency, None)>>)

\* a set_lacunarity that empties the memo
CacheSetLacunarity_Clears(c, lacunarity) ==
    Result([source |-> LeafSetLacunarity(c.source, lacunarity), value |-> None, point |-> <<>>],
           None, <<Call("source", "set_lacunarity", <<>>, lacunarity, None)>>)

CacheSetLacunarity(c, lacunarity) ==
    Result([c EXCEPT !.source = LeafSetLacunarity(c.source, lacunarity)],
           None, <<Call("source", "set_lacunarity", <<>>, lacunarity, None)>>)

CacheSetPersistence(c, persistence) ==
    Result([c EXCEPT !.source = LeafSetPersistence(c.source, persistence)],
           None, <<Call("source", "set_persistence", <<>>, persistence, None)>>)

----------------------------------------------------------------------------
(* Min over two sources, each the Cache (by reference) or the bare leaf *)

Kinds == {"cache", "leaf"}

\* the bare leaf a Min may take as an input
other == [seed |-> MaxSeed, octaves |-> 2, frequency |-> 1, lacunarity |-> 1, persistence |-> 1]

\* self.sourceK.get(point)
SourceGet(c, kind, p) ==
    IF kind = "cache" THEN CacheGet(c, p)
    ELSE Result(c, Some(LeafGet(other, p)), <<>>)

\* (self.source1.get(point)).min(self.source2.get(point)): source1 first, then
\* source2; a panic in either unwinds through Min::get
MinGet(c, kind1, kind2, p) ==
    LET r1 == SourceGet(c, kind1, p) IN
    IF r1.ret = None
    THEN [cache |-> r1.cache, ret |-> None,
          calls |-> <<Call("source1", "get", p, 0, None)>>, inner |-> r1.calls]
    ELSE LET r2 == SourceGet(r1.cache, kind2, p) IN
         IF r2.ret = None
         THEN [cache |-> r2.cache, ret |-> None,
               calls |-> <<Call("source1", "get", p, 0, r1.ret),
                           Call("source2", "get", p, 0, None)>>,
               inner |-> r1.calls \o r2.calls]
         ELSE [cache |-> r2.cache, ret |-> Some(F64Min(r1.ret[1], r2.ret[1])),
               calls |-> <<Call("source1", "get", p, 0, r1.ret),
                           Call("source2", "get", p, 0, r2.ret)>>,
               inner |-> r1.calls \o r2.calls]

\* a tree: a Cache over the leaf, or a Min whose inputs are that Cache or the bare leaf
Shapes == {[top |-> "cache", kind1 |-> "cache", kind2 |-> "cache"]}
          \cup {[top |-> "min", kind1 |-> k1, kind2 |-> k2] : k1 \in Kinds, k2 \in Kinds}

\* get on the root of a tree whose Cache is c
TreeGet(c, shape, p) ==
    IF shape.top = "cache"
    THEN LET r == CacheGet(c, p) IN
         [cache |-> r.cache, ret |-> r.ret, calls |-> r.calls, inner |-> r.calls]
    ELSE MinGet(c, shape.kind1, shape.kind2, p)

----------------------------------------------------------------------------
(* The state machine: one caller, one call at a time *)

\* no second tree
NoTwin == [cache |-> CacheNew(LeafNew(0)), shape |-> [top |-> "none", kind1 |-> "cache", kind2 |-> "cache"],
           out |-> None]

Self == [source |-> source, value |-> value, point |-> point]

Install(c) == source' = c.source /\ value' = c.value /\ point' = c.point

Record(o) ==
    /\ last' = o
    /\ IF o.op = "get" /\ tracing /\ Len(trace) < MaxTrace
       THEN trace' = Append(trace, o) /\ tracing' = TRUE
       ELSE trace' = <<>> /\ tracing' = FALSE

\* the threads that may share the Cache
Threads == {1, 2}

\* a thread outside Cache::get
Idle == [pc |-> "idle", pt |-> <<>>, seen |-> None, v |-> None]

\* no thread is inside Cache::get
NoThreads ==
    /\ threads = [t \in Threads |-> Idle]
    /\ writers = {}
    /\ overlapped = FALSE

\* a call by the single caller: the other threads are not involved
Alone == UNCHANGED <<threads, writers, overlapped>>

\* the wrapped source's evaluations made by one call: the last one is remembered
Evaluated(evals) ==
    lastEval' = IF evals = <<>> THEN lastEval
                ELSE Some([pt |-> evals[Len(evals)].pt, ret |-> evals[Len(evals)].ret])

Constructed(c, ds, sa, tr) ==
    /\ source = c.source /\ value = c.value /\ point = c.point
    /\ dims = ds
    /\ last = Op("new", <<>>, 0, None, <<>>, <<>>)
    /\ trace = <<>> /\ tracing = tr
    /\ fresh = TRUE
    /\ changed = FALSE
    /\ seedArg = sa
    /\ panicked = FALSE
    /\ twin = NoTwin
    /\ lastEval = None
    /\ NoThreads

\* Cache::new(source) over any leaf, or <Cache<T> as Seedable>::new(seed)
InitWith(ds, tr) ==
    \/ \E cfg \in Configs : Constructed(CacheNew(cfg), ds, cfg.seed, tr)
    \/ \E seed \in Seeds : Constructed(SeedableNew(seed), ds, seed, tr)

\* the Cache is used at one dimension N, as in one composed tree
Init == \E n \in Dims : InitWith({n}, TRUE)

\* the Cache is used at every dimension its source implements NoiseFn<N> for
InitMixed == InitWith(Dims, FALSE)

\* as Init, without the record of the first get calls
InitMin == \E n \in Dims : InitWith({n}, FALSE)

Get(p) ==
    /\ ~panicked
    /\ Len(p) \in dims
    /\ LET r == CacheGet(Self, p) IN
       /\ Install(r.cache)
       /\ panicked' = (r.ret = None)
       /\ Record(Op("get", p, 0, r.ret, r.calls, <<>>))
       /\ Evaluated(r.calls)
    /\ fresh' = FALSE
    /\ UNCHANGED <<dims, changed, seedArg, twin>>
    /\ Alone

Setter(op, arg, r) ==
    /\ ~panicked
    /\ Install(r.cache)
    /\ changed' = (changed \/ r.cache.source # source)
    /\ Record(Op(op, <<>>, arg, r.ret, r.calls, <<>>))
    /\ UNCHANGED <<dims, fresh, panicked, twin, lastEval>>
    /\ Alone

SetSeed(seed) ==
    /\ Setter("set_seed", seed, CacheSetSeed(Self, seed))
    /\ seedArg' = seed

Seed ==
    /\ ~panicked
    /\ LET r == CacheSeed(Self) IN
       /\ Install(r.cache)
       /\ Record(Op("seed", <<>>, 0, r.ret, r.calls, <<>>))
    /\ UNCHANGED <<dims, fresh, changed, seedArg, panicked, twin, lastEval>>
    /\ Alone

SetOctaves(octaves) ==
    /\ Setter("set_octaves", octaves, CacheSetOctaves(Self, octaves))
    /\ UNCHANGED seedArg

SetFrequency(frequency) ==
    /\ Setter("set_frequency", frequency, CacheSetFrequency(Self, frequency))
    /\ UNCHANGED seedArg

SetLacunarity(lacunarity) ==
    /\ Setter("set_lacunarity", lacunarity, CacheSetLacunarity(Self, lacunarity))
    /\ UNCHANGED seedArg

SetPersistence(persistence) ==
    /\ Setter("set_persistence", persistence, CacheSetPersistence(Self, persistence))
    /\ UNCHANGED seedArg

\* Min::new(s1, s2).get(p)
MinOfGet(kind1, kind2, p) ==
    /\ ~panicked
    /\ Len(p) \in dims
    /\ LET r == MinGet(Self, kind1, kind2, p) IN
       /\ Install(r.cache)
       /\ panicked' = (r.ret = None)
       /\ Record([op |-> "min_get", pt |-> p, arg |-> 0, ret |-> r.ret,
                  calls |-> r.calls, inner |-> r.inner]
                 @@ [kind1 |-> kind1, kind2 |-> kind2])
       /\ Evaluated(r.inner)
    /\ fresh' = (fresh /\ "cache" \notin {kind1, kind2})
    /\ UNCHANGED <<dims, changed, seedArg, twin>>
    /\ Alone

Next ==
    \/ \E p \in Points : Get(p)
    \/ \E seed \in Seeds : SetSeed(seed)
    \/ Seed
    \/ \E octaves \in ParamVals : SetOctaves(octaves)
    \/ \E frequency \in ParamVals : SetFrequency(frequency)
    \/ \E lacunarity \in ParamVals : SetLacunarity(lacunarity)
    \/ \E persistence \in ParamVals : SetPersistence(persistence)

\* a caller that also evaluates a Min over the Cache and the bare leaf
NextMin ==
    \/ \E p \in Points : Get(p)
    \/ \E seed \in Seeds : SetSeed(seed)
    \/ \E kind1 \in Kinds, kind2 \in Kinds, p \in Points : MinOfGet(kind1, kind2, p)

\* either constructor, over a leaf with its default parameters
Built == {CacheNew(LeafNew(seed)) : seed \in Seeds} \cup {SeedableNew(seed) : seed \in Seeds}

\* two trees of one shape, each built on its own
InitPair ==
    \E n \in Dims, a \in Built, b \in Built, shape \in Shapes :
        /\ source = a.source /\ value = a.value /\ point = a.point
        /\ dims = {n}
        /\ last = Op("new", <<>>, 0, None, <<>>, <<>>)
        /\ trace = <<>> /\ tracing = FALSE
        /\ fresh = TRUE
        /\ changed = FALSE
        /\ seedArg = a.source.seed
        /\ panicked = FALSE
        /\ twin = [cache |-> b, shape |-> shape, out |-> None]
        /\ lastEval = None
        /\ NoThreads

\* a consuming setter applied to the second tree's Cache
TwinSetter(r) ==
    /\ ~panicked
    /\ twin' = [twin EXCEPT !.cache = r.cache]
    /\ UNCHANGED <<source, value, point, dims, last, trace, tracing, fresh, changed, seedArg,
                   panicked, lastEval>>
    /\ Alone

TwinSetSeed(seed) == TwinSetter(CacheSetSeed(twin.cache, seed))
TwinSetOctaves(octaves) == TwinSetter(CacheSetOctaves(twin.cache, octaves))
TwinSetFrequency(frequency) == TwinSetter(CacheSetFrequency(twin.cache, frequency))

\* both trees, whose seeds and fractal parameters are the same, are evaluated at p
Drive(p) ==
    /\ ~panicked
    /\ Len(p) \in dims
    /\ source = twin.cache.source
    /\ LET a == TreeGet(Self, twin.shape, p)
           b == TreeGet(twin.cache, twin.shape, p)
       IN  /\ Install(a.cache)
           /\ twin' = [twin EXCEPT !.cache = b.cache, !.out = b.ret]
           /\ panicked' = (a.ret = None \/ b.ret = None)
           /\ Record(Op("drive", p, 0, a.ret, a.calls, a.inner))
           /\ Evaluated(a.inner)
    /\ fresh' = FALSE
    /\ UNCHANGED <<dims, changed, seedArg>>
    /\ Alone

NextPair ==
    \/ \E seed \in Seeds : SetSeed(seed)
    \/ \E octaves \in ParamVals : SetOctaves(octaves)
    \/ \E frequency \in ParamVals : SetFrequency(frequency)
    \/ \E seed \in Seeds : TwinSetSeed(seed)
    \/ \E octaves \in ParamVals : TwinSetOctaves(octaves)
    \/ \E frequency \in ParamVals : TwinSetFrequency(frequency)
    \/ \E p \in Points : Drive(p)

----------------------------------------------------------------------------
(* Cache::get called from several threads on one Cache, with no lock around
   it: the statements of get are the steps, interleaved in any order. Cell and
   RefCell are not Sync, so this takes an unsafe sharing of the Cache; reads
   that race with a write of the RefCell's borrow flag go either way. *)

Busy(t) == threads[t].pc \notin {"idle", "dead"}

\* a clear that leaves the elements in place
VecClear_Keeps(vec) == vec

\* Vec::clear
VecClear(vec) == <<>>

\* Vec::extend_from_slice
VecExtend(vec, slice) == vec \o slice

\* the thread's call is over: it returned ret, or panicked (ret = None)
Return(t, pc, ret, calls) ==
    /\ threads' = [threads EXCEPT ![t] = [Idle EXCEPT !.pc = pc]]
    /\ last' = Op("get", threads[t].pt, 0, ret, calls, <<>>)

\* a new Cache shared by the threads
InitConc ==
    \E n \in Dims, c \in Built : Constructed(c, {n}, c.source.seed, FALSE)

\* get(p) is entered and self.value.get() is read; the guard is evaluated only
\* if it was Some
Begin(t, p) ==
    /\ threads[t].pc = "idle"
    /\ Len(p) \in dims
    /\ threads' = [threads EXCEPT ![t] =
                      [pc |-> IF value = None THEN "eval" ELSE "guard",
                       pt |-> p, seen |-> value, v |-> None]]
    /\ overlapped' = (overlapped \/ \E u \in Threads \ {t} : Busy(u))
    /\ fresh' = FALSE
    /\ UNCHANGED <<source, value, point, dims, last, trace, tracing, changed, seedArg,
                   panicked, twin, lastEval, writers>>

\* quick_eq(&self.point.borrow(), point): borrow() panics if it sees the point
\* mutably borrowed, quick_eq panics on a length mismatch; a hit returns the
\* value read on entry
Guard(t) ==
    /\ threads[t].pc = "guard"
    /\ \/ /\ writers # {}
          /\ Return(t, "dead", None, <<>>)
       \/ IF QuickEqPanics(point, threads[t].pt)
          THEN Return(t, "dead", None, <<>>)
          ELSE IF quick_eq(point, threads[t].pt)
          THEN Return(t, "idle", threads[t].seen, <<>>)
          ELSE /\ threads' = [threads EXCEPT ![t].pc = "eval"]
               /\ UNCHANGED last
    /\ UNCHANGED <<source, value, point, dims, trace, tracing, fresh, changed, seedArg,
                   panicked, twin, lastEval, writers, overlapped>>

\* let value = self.source.get(point)
Eval(t) ==
    /\ threads[t].pc = "eval"
    /\ LET v == Some(LeafGet(source, threads[t].pt)) IN
       /\ threads' = [threads EXCEPT ![t].pc = "set", ![t].v = v]
       /\ lastEval' = Some([pt |-> threads[t].pt, ret |-> v])
    /\ UNCHANGED <<source, value, point, dims, last, trace, tracing, fresh, changed, seedArg,
                   panicked, twin, writers, overlapped>>

\* self.value.set(Some(value))
SetValue(t) ==
    /\ threads[t].pc = "set"
    /\ value' = threads[t].v
    /\ threads' = [threads EXCEPT ![t].pc = "borrow"]
    /\ UNCHANGED <<source, point, dims, last, trace, tracing, fresh, changed, seedArg,
                   panicked, twin, lastEval, writers, overlapped>>

\* let mut cached_point = self.point.borrow_mut(): panics if it sees the point
\* already borrowed
BorrowMut(t) ==
    /\ threads[t].pc = "borrow"
    /\ \/ /\ writers # {}
          /\ Return(t, "dead", None, <<Call("source", "get", threads[t].pt, 0, threads[t].v)>>)
          /\ UNCHANGED writers
       \/ /\ writers' = writers \cup {t}
          /\ threads' = [threads EXCEPT ![t].pc = "clear"]
          /\ UNCHANGED last
    /\ UNCHANGED <<source, value, point, dims, trace, tracing, fresh, changed, seedArg,
                   panicked, twin, lastEval, overlapped>>

\* cached_point.clear()
Clear(t) ==
    /\ threads[t].pc = "clear"
    /\ point' = VecClear(point)
    /\ threads' = [threads EXCEPT ![t].pc = "extend"]
    /\ UNCHANGED <<source, value, dims, last, trace, tracing, fresh, changed, seedArg,
                   panicked, twin, lastEval, writers, overlapped>>

\* cached_point.extend_from_slice(point); the RefMut is dropped and value is
\* returned
Extend(t) ==
    /\ threads[t].pc = "extend"
    /\ point' = VecExtend(point, threads[t].pt)
    /\ writers' = writers \ {t}
    /\ Return(t, "idle", threads[t].v, <<Call("source", "get", threads[t].pt, 0, threads[t].v)>>)
    /\ UNCHANGED <<source, value, dims, trace, tracing, fresh, changed, seedArg,
                   panicked, twin, lastEval, overlapped>>

NextConc ==
    \E t \in Threads :
        \/ \E p \in Points : Begin(t, p)
        \/ Guard(t)
        \/ Eval(t)
        \/ SetValue(t)
        \/ BorrowMut(t)
        \/ Clear(t)
        \/ Extend(t)

Spec == Init /\ [][Next]_vars

SpecConc == InitConc /\ [][NextConc]_vars

SpecPair == InitPair /\ [][NextPair]_vars

SpecMixed == InitMixed /\ [][Next]_vars

SpecMin == InitMin /\ [][NextMin]_vars

----------------------------------------------------------------------------
(* Properties *)

\* p == q as Rust compares two points: same length, every coordinate equal under f64's ==
SamePoint(p, q) ==
    /\ Len(p) = Len(q)
    /\ \A i \in 1..Len(p) : ~p[i].nan /\ ~q[i].nan /\ p[i].v = q[i].v

SourceCall(p, ret) == Call("source", "get", p, 0, ret)

\* C1: after Cache.set_seed(new_seed) the memo is empty, so that the next
\* get(p) returns the value of the reseeded source at p, even if p is the point
\* that was cached before the reseed.
C1_ReseedInvalidates ==
    [][\A p \in Points :
        (last.op = "set_seed" /\ Get(p)) => last'.ret = Some(LeafGet(source, p))]_vars

\* C2 as claimed: for any point p, in any Cache state, a get(p) that follows a
\* get(p) does not invoke the source and returns the same value; and get(p)
\* skips the source iff the memo holds a value and the stored point is
\* component-wise equal to p.
C2_MemoizationAnyPoint ==
    [][\A p \in Points :
        /\ (last.op = "get" /\ last.pt = p /\ Get(p)) =>
               last'.calls = <<>> /\ last'.ret = last.ret
        /\ Get(p) =>
               (last'.calls = <<>> <=> (value # None /\ SamePoint(point, p)))]_vars

\* C2 (amended): for any point p none of whose coordinates is NaN, in any Cache
\* state, a get(p) that follows a get(p) does not invoke the source and returns
\* the same value, so that the two calls invoke it once if the first missed and
\* not at all if it hit; and for every point p, get(p) skips the source iff the
\* memo holds a value and the stored point is component-wise equal to p.
C2_Memoization ==
    [][\A p \in Points :
        /\ (last.op = "get" /\ last.pt = p /\ ~HasNaN(p) /\ Get(p)) =>
               last'.calls = <<>> /\ last'.ret = last.ret
        /\ Get(p) =>
               (last'.calls = <<>> <=> (value # None /\ SamePoint(point, p)))]_vars

\* two get(p) in succession on a new Cache: the first missed, the second hit
C2_Witness ==
    /\ tracing /\ Len(trace) = 2
    /\ trace[1].pt = trace[2].pt
    /\ Len(trace[1].calls) = 1 /\ trace[2].calls = <<>>
    /\ trace[2].ret = trace[1].ret

C4_SingleSlotEviction ==
    /\ [](  (/\ tracing /\ Len(trace) = 3
             /\ trace[3].pt = trace[1].pt
             /\ ~SamePoint(trace[1].pt, trace[2].pt))
          => Len(trace[1].calls) + Len(trace[2].calls) + Len(trace[3].calls) = 3)
    /\ [][\A p \in Points :
            (value # None /\ ~SamePoint(point, p) /\ Get(p)) =>
                /\ last'.calls = <<SourceCall(p, last'.ret)>>
                /\ point' = p /\ value' = last'.ret]_vars

\* get(p1); get(p2); get(p1) happened on a new Cache, p1 and p2 free of NaN
C4_Witness ==
    /\ tracing /\ Len(trace) = 3
    /\ trace[3].pt = trace[1].pt
    /\ ~SamePoint(trace[1].pt, trace[2].pt)
    /\ ~HasNaN(trace[1].pt) /\ ~HasNaN(trace[2].pt)
    /\ point = trace[1].pt

\* C5: Min::new(s1, s2).get(p) calls s1.get(p) once, then s2.get(p) once, both
\* with the point p, whatever they return, and returns the smaller of the two
\* values returned (the other one if one is NaN).
C5_MinCorrect ==
    last.op = "min_get" =>
        /\ Len(last.calls) = 2
        /\ \A i \in 1..2 :
              /\ last.calls[i].fn = "get" /\ last.calls[i].pt = last.pt
              /\ last.calls[i].ret # None
        /\ last.calls[1].src = "source1" /\ last.calls[2].src = "source2"
        /\ last.kind1 = "leaf" => last.calls[1].ret = Some(LeafGet(other, last.pt))
        /\ last.kind2 = "leaf" => last.calls[2].ret = Some(LeafGet(other, last.pt))
        /\ last.ret # None
        /\ LET a == last.calls[1].ret[1]
               b == last.calls[2].ret[1]
               m == last.ret[1]
           IN  IF a.nan /\ b.nan THEN m.nan
               ELSE IF a.nan THEN m = b
               ELSE IF b.nan THEN m = a
               ELSE m \in {a, b} /\ m.v <= a.v /\ m.v <= b.v

\* a Min over the Cache and the bare leaf whose two inputs returned the same number
C5_Witness ==
    /\ last.op = "min_get" /\ last.kind1 = "cache" /\ last.kind2 = "leaf"
    /\ Len(last.calls) = 2
    /\ last.calls[1].ret = last.calls[2].ret
    /\ last.ret = last.calls[1].ret
    /\ ~last.ret[1].nan

\* C6: no get call fails, whatever calls the types permit came before it: the
\* length assertion in quick_eq never fires.
C6_GetInfallible == ~panicked /\ (last.op = "get" => last.ret # None)

FractalSetters == {"set_octaves", "set_frequency", "set_lacunarity", "set_persistence"}

\* C7: after set_octaves, set_frequency, set_lacunarity or set_persistence the
\* next get(p) returns the value of the reconfigured source at p, even if p is
\* the point that was cached before: never a value computed under the old
\* fractal parameters.
C7_SettersInvalidate ==
    [][\A p \in Points :
        (last.op \in FractalSetters /\ Get(p)) => last'.ret = Some(LeafGet(source, p))]_vars

\* C8: a Cache built by Cache::new(source) or Seedable::new(seed) holds no value
\* and no point until its first get(p), which invokes the wrapped source once,
\* with p, and returns that value.
C8_EmptyAtConstruction ==
    /\ [](fresh => value = None /\ point = <<>>)
    /\ [][\A p \in Points :
            (fresh /\ Get(p)) =>
                /\ last'.ret = Some(LeafGet(source, p))
                /\ last'.calls = <<SourceCall(p, last'.ret)>>]_vars

\* the first get of a new Cache was made
C8_Witness ==
    /\ ~fresh /\ tracing /\ Len(trace) = 1
    /\ last.op = "get" /\ Len(last.calls) = 1
    /\ value = last.ret /\ point = last.pt

SetterCall(fn, v) == <<Call("source", fn, <<>>, v, None)>>

\* C9: each fractal setter of the Cache, for every argument v, calls the
\* same-named setter of the wrapped source once with v and nothing else on it,
\* so that the wrapped source has that parameter at v and its others as before.
C9_Forwarding ==
    [][\A v \in ParamVals :
        /\ SetOctaves(v) =>
              /\ source' = [source EXCEPT !.octaves = v]
              /\ last'.calls = SetterCall("set_octaves", v)
        /\ SetFrequency(v) =>
              /\ source' = [source EXCEPT !.frequency = v]
              /\ last'.calls = SetterCall("set_frequency", v)
        /\ SetLacunarity(v) =>
              /\ source' = [source EXCEPT !.lacunarity = v]
              /\ last'.calls = SetterCall("set_lacunarity", v)
        /\ SetPersistence(v) =>
              /\ source' = [source EXCEPT !.persistence = v]
              /\ last'.calls = SetterCall("set_persistence", v)]_vars

\* set_octaves(2) was called on a Cache built by Seedable::new, after a get
C9_Witness ==
    /\ last.op = "set_octaves" /\ last.arg = 2
    /\ source = [LeafNew(seedArg) EXCEPT !.octaves = 2]
    /\ changed /\ value # None

SelfNext == [source |-> source', value |-> value', point |-> point']

\* C10: Cache.set_seed(s) reseeds the wrapped source with s, Cache.seed()
\* reports the seed most recently given (to set_seed, or at construction), and
\* a get call does not change the seed reported.
C10_SeedRouting ==
    /\ [](last.op = "set_seed" => CacheSeed(Self).ret = Some(last.arg))
    /\ [](last.op = "seed" => last.ret = Some(seedArg))
    /\ [](CacheSeed(Self).ret = Some(seedArg))
    /\ [][\A p \in Points : Get(p) => CacheSeed(SelfNext).ret = CacheSeed(Self).ret]_vars

\* seed() was called on a Cache holding a value, after a set_seed that changed
\* the seed of a Cache built by Seedable::new
C10_Witness ==
    /\ last.op = "seed" /\ last.ret = Some(seedArg)
    /\ changed /\ source = LeafNew(seedArg)
    /\ value # None

\* C11: two trees of the same shape, each built on its own (by either
\* constructor and its own setter calls), return the same value whenever both
\* are evaluated at the same point with the same seeds and fractal parameters,
\* whatever their memos hold by then.
C11_Determinism ==
    last.op = "drive" => last.ret = twin.out

\* both trees, a Min over the Cache and the bare leaf, reconfigured after
\* earlier evaluations, answered from their memos
C11_Witness ==
    /\ last.op = "drive" /\ twin.shape.top = "min"
    /\ twin.shape.kind1 = "cache" /\ twin.shape.kind2 = "leaf"
    /\ changed /\ last.inner = <<>>
    /\ last.ret = twin.out /\ ~last.ret[1].nan

\* the last step was a get of a Min both of whose inputs are the one Cache
SharedGet ==
    /\ last.op = "min_get"
    /\ last.kind1 = "cache" /\ last.kind2 = "cache"

\* the wrapped source was evaluated at most once for the two consumers, and
\* both received the same value
SavedOnce ==
    /\ Len(last.inner) <= 1
    /\ Len(last.calls) = 2
    /\ last.calls[1].ret # None
    /\ last.calls[1].ret = last.calls[2].ret

\* C12 as stated: whenever both inputs of a Min are the same Cache, one get of
\* the Min at any point evaluates the wrapped source once rather than twice
\* and gives both inputs the same value.
C12_SharedSourceAnyPoint ==
    SharedGet => SavedOnce

\* C12: whenever both inputs of a Min are the same Cache, one get of the Min at
\* a point with no NaN coordinate evaluates the wrapped source at most once and
\* gives both inputs the same value; at a point with a NaN coordinate the
\* second input misses again and the source is evaluated twice.
C12_SharedSource ==
    SharedGet =>
        IF HasNaN(last.pt)
        THEN Len(last.inner) = 2
        ELSE SavedOnce

\* the first input missed and the second was answered from the memo
C12_Witness ==
    /\ SharedGet /\ ~HasNaN(last.pt)
    /\ Len(last.inner) = 1
    /\ last.calls[2].ret = last.inner[1].ret

\* C13: in every state, if the memo holds a value then it is what the source
\* returned at its most recent evaluation, and that evaluation (made by the
\* most recent get that missed) was at the stored point; after every get(p)
\* that returned, the stored point equals p (it is p's copy, or equal to p
\* coordinate by coordinate) and the stored value is the value just returned.
C13_MemoInvariant ==
    /\ value # None => (lastEval # None /\ value = lastEval[1].ret)
    /\ lastEval # None => point = lastEval[1].pt
    /\ (last.op = "get" /\ last.ret # None) =>
           /\ point = last.pt \/ SamePoint(point, last.pt)
           /\ value # None /\ value = last.ret

\* after a reseed, a get answered from the memo at a point that is not the
\* stored point's copy
C13_Witness ==
    /\ last.op = "get" /\ last.calls = <<>>
    /\ changed
    /\ point # last.pt
    /\ lastEval # None /\ value = lastEval[1].ret

\* C14: each of set_octaves, set_frequency, set_lacunarity and set_persistence
\* leaves the stored value and the stored point exactly as they were in the
\* Cache it consumed.
C14_SetterFrame ==
    [][\A v \in ParamVals :
        (SetOctaves(v) \/ SetFrequency(v) \/ SetLacunarity(v) \/ SetPersistence(v)) =>
            (value' = value /\ point' = point)]_vars

\* a fractal setter changed the source of a Cache whose memo was filled
C14_Witness ==
    /\ last.op \in FractalSetters
    /\ value # None /\ point # <<>>
    /\ lastEval # None /\ value # Some(LeafGet(source, point))

\* no thread is inside Cache::get
Quiet == \A t \in Threads : ~Busy(t)

\* the stored value is what the source gives at the stored point
Coherent == value # None => value = Some(LeafGet(source, point))

\* C15: as long as get calls run one at a time, between calls the stored value
\* is the source's value at the stored point and every get returns the
\* source's value at its argument; once two get calls overlap, the steps of
\* their miss paths interleave and neither is guaranteed any more.
C15_SequentialCoherent ==
    ~overlapped =>
        /\ Quiet => Coherent
        /\ last.op = "get" => last.ret = Some(LeafGet(source, last.pt))

\* after two overlapping misses the stored value is not the source's value at
\* the stored point, and a later get at the stored point, run alone, was
\* answered from the memo with that wrong value
C15_Witness ==
    /\ overlapped /\ Quiet
    /\ ~Coherent
    /\ \A t \in Threads : threads[t].pc = "idle"
    /\ last.op = "get" /\ last.calls = <<>>
    /\ last.pt = point
    /\ last.ret = value /\ last.ret # Some(LeafGet(source, last.pt))

\* the memo is as it was
MemoKept == value' = value /\ point' = point

\* the get calls made since construction were all at one point
OneRun == tracing /\ \A i \in 1..Len(trace) : trace[i].pt = trace[1].pt

\* C16 as stated: a get(p) that finds a value in the memo and the stored point
\* equal to p neither invokes the source nor changes the memo; and for any
\* point p, each get(p) after the first of a run of consecutive get(p) calls
\* does not invoke the source and leaves the memo as the first call left it.
C16_HitFrameAnyPoint ==
    /\ [](OneRun => \A i \in 2..Len(trace) : trace[i].calls = <<>>)
    /\ [][\A p \in Points :
            /\ (value # None /\ SamePoint(point, p) /\ Get(p)) =>
                   (last'.calls = <<>> /\ MemoKept)
            /\ (last.op = "get" /\ last.pt = p /\ Get(p)) =>
                   (last'.calls = <<>> /\ MemoKept)]_vars

\* C16 (amended): a get(p) that finds a value in the memo and the stored point
\* equal to p neither invokes the source nor changes the memo; and for any
\* point p with no NaN coordinate, each get(p) after the first of a run of
\* consecutive get(p) calls does not invoke the source and leaves the memo as
\* the first call left it, so that the run costs at most one evaluation.
C16_HitFrame ==
    /\ [](OneRun => \A i \in 2..Len(trace) : HasNaN(trace[1].pt) \/ trace[i].calls = <<>>)
    /\ [][\A p \in Points :
            /\ (value # None /\ SamePoint(point, p) /\ Get(p)) =>
                   (last'.calls = <<>> /\ MemoKept)
            /\ (last.op = "get" /\ last.pt = p /\ ~HasNaN(p) /\ Get(p)) =>
                   (last'.calls = <<>> /\ MemoKept)]_vars

\* three get(p) in succession on a new Cache cost one evaluation and the memo
\* is as the first left it
C16_Witness ==
    /\ OneRun /\ Len(trace) = 3 /\ ~HasNaN(trace[1].pt)
    /\ Len(trace[1].calls) = 1
    /\ trace[2].calls = <<>> /\ trace[3].calls = <<>>
    /\ value = trace[1].ret /\ point = trace[1].pt

\* C17: on a Cache used at one dimension N, in every state the stored value is
\* absent exactly when the stored point is empty, and when the value is
\* present the stored point has N coordinates.
C17_SlotsPaired ==
    /\ value = None <=> point = <<>>
    /\ value # None => \A n \in dims : Len(point) = n

\* a Cache used at dimension 2, reseeded after a get: both slots are filled
C17_Witness ==
    /\ dims = {2} /\ last.op = "set_seed"
    /\ value # None /\ Len(point) = 2

====
